---- MODULE Spec2Model ----
(***************************************************************************)
(* Strike validation and execution pipeline of the DotMatrix-FilePrinter   *)
(* Tauri backend (src-tauri/src/main.rs).                                  *)
(*                                                                         *)
(* Text is modelled as a sequence of one-character strings, so that        *)
(* formatting (decimal, hex, padding) and the layout of the generated      *)
(* Forth fragment are computed character by character as the code does.    *)
(* The marker "NUL" stands for a zero byte of a file hole, and "GRAVE"    *)
(* for the character 0x60, which a TLA+ string cannot hold.                *)
(***************************************************************************)
EXTENDS Integers, Sequences, FiniteSets

VARIABLES
    input, readable, vpath, strict, preview, verify,
    pc, bytes, path, wpos, off, avail, log, result,
    launched, exitCode, fragAtBegin, dirsAtBegin,
    fragment, dirs, kernelDir

pureVars == <<input, readable, vpath, strict, preview, verify>>
callVars == <<pc, bytes, path, wpos, off, avail, log, result,
              launched, exitCode, fragAtBegin, dirsAtBegin>>
fsVars == <<fragment, dirs, kernelDir>>
vars == <<input, readable, vpath, strict, preview, verify,
          pc, bytes, path, wpos, off, avail, log, result,
          launched, exitCode, fragAtBegin, dirsAtBegin,
          fragment, dirs, kernelDir>>

(***************************************************************************)
(* Bounds of the model.                                                    *)
(***************************************************************************)
\* longest buffer handed to execute
MaxLen == 2
\* longest buffer of the exhaustive family handed to preview / verify
MaxScan == 2
\* longest ramp buffer handed to the hexdump (two full rows and a partial one)
MaxDump == 33
\* longest buffer of the concurrent executes
MaxRace == 1

(***************************************************************************)
(* constraints (config/meta.ncl)                                           *)
(***************************************************************************)
MAX_BYTE == 127
FORBIDDEN_NBSP == 160
FORBIDDEN_UTF8 == 194
\* bytes.chunks(16)
ChunkSize == 16
\* {:48} of the hex field
HexFieldWidth == 48
\* {:08x} of the row offset
OffsetWidth == 8

(***************************************************************************)
(* Text helpers: the formatting machinery behind format!/write!.           *)
(***************************************************************************)
DecDigits == <<"0", "1", "2", "3", "4", "5", "6", "7", "8", "9">>
HexLower == <<"0", "1", "2", "3", "4", "5", "6", "7", "8", "9",
              "a", "b", "c", "d", "e", "f">>
HexUpper == <<"0", "1", "2", "3", "4", "5", "6", "7", "8", "9",
              "A", "B", "C", "D", "E", "F">>

RECURSIVE Radix(_, _, _)
\* the digits of n in the base Len(digits), most significant first
Radix(n, digits, acc) ==
    LET base == Len(digits)
        acc2 == <<digits[(n % base) + 1]>> \o acc
    IN  IF n < base THEN acc2 ELSE Radix(n \div base, digits, acc2)

\* "{}" of an unsigned integer
Dec(n) == Radix(n, DecDigits, <<>>)

\* "{:w}" of a string: left-aligned, padded on the right, never truncated
PadRight(s, w, ch) ==
    IF Len(s) >= w THEN s ELSE s \o [i \in 1..(w - Len(s)) |-> ch]

\* zero padding of a number: padded on the left, never truncated
PadLeft(s, w, ch) ==
    IF Len(s) >= w THEN s ELSE [i \in 1..(w - Len(s)) |-> ch] \o s

\* "{:02x}"
Fmt02x(b) == PadLeft(Radix(b, HexLower, <<>>), 2, "0")
\* "{:02X}"
Fmt02X(b) == PadLeft(Radix(b, HexUpper, <<>>), 2, "0")
\* "{:08x}"
Fmt08x(n) == PadLeft(Radix(n, HexLower, <<>>), OffsetWidth, "0")

RECURSIVE JoinFrom(_, _, _)
JoinFrom(parts, sep, i) ==
    IF i > Len(parts) THEN <<>>
    ELSE IF i = Len(parts) THEN parts[i]
    ELSE parts[i] \o sep \o JoinFrom(parts, sep, i + 1)

\* Vec<String>::join(sep)
Join(parts, sep) == JoinFrom(parts, sep, 1)

RECURSIVE Concat(_)
\* the concatenation of a sequence of texts
Concat(parts) ==
    IF parts = <<>> THEN <<>> ELSE Head(parts) \o Concat(Tail(parts))

\* b as char, for the printable range
AsciiTable ==
    <<" ", "!", "\"", "#", "$", "%", "&", "'", "(", ")", "*", "+", ",", "-", ".", "/",
      "0", "1", "2", "3", "4", "5", "6", "7", "8", "9", ":", ";", "<", "=", ">", "?",
      "@", "A", "B", "C", "D", "E", "F", "G", "H", "I", "J", "K", "L", "M", "N", "O",
      "P", "Q", "R", "S", "T", "U", "V", "W", "X", "Y", "Z", "[", "\\", "]", "^", "_",
      "GRAVE", "a", "b", "c", "d", "e", "f", "g", "h", "i", "j", "k", "l", "m", "n", "o",
      "p", "q", "r", "s", "t", "u", "v", "w", "x", "y", "z", "{", "|", "}", "~">>

NbspDescription ==
    <<"N", "B", "S", "P", " ", "(", "N", "o", "n", "-", "B", "r", "e", "a", "k", "i",
      "n", "g", " ", "S", "p", "a", "c", "e", ")">>

Utf8Description ==
    <<"U", "T", "F", "-", "8", " ", "c", "o", "n", "t", "i", "n", "u", "a", "t", "i",
      "o", "n", " ", "m", "a", "r", "k", "e", "r">>

NonAsciiPrefix ==
    <<"N", "o", "n", "-", "A", "S", "C", "I", "I", " ", "(", "0", "x">>

NonAsciiSuffix ==
    <<" ", ">", " ", "1", "2", "7", ")">>

MsgByte ==
    <<"B", "y", "t", "e", " ">>

MsgAtPosition ==
    <<" ", "a", "t", " ", "p", "o", "s", "i", "t", "i", "o", "n", " ">>

MsgExceeds ==
    <<" ", "e", "x", "c", "e", "e", "d", "s", " ", "A", "S", "C", "I", "I", " ", "l",
      "i", "m", "i", "t", " ", "(", "1", "2", "7", ")">>

MsgForbidden ==
    <<"F", "o", "r", "b", "i", "d", "d", "e", "n", " ", "b", "y", "t", "e", " ">>

MsgFileError ==
    <<"F", "i", "l", "e", " ", "o", "p", "e", "r", "a", "t", "i", "o", "n", " ", "f",
      "a", "i", "l", "e", "d", ":", " ">>

MsgForthError ==
    <<"F", "o", "r", "t", "h", " ", "k", "e", "r", "n", "e", "l", " ", "e", "x", "e",
      "c", "u", "t", "i", "o", "n", " ", "f", "a", "i", "l", "e", "d", ":", " ">>

MsgGforthNotFound ==
    <<"G", "f", "o", "r", "t", "h", " ", "n", "o", "t", " ", "f", "o", "u", "n", "d",
      ".", " ", "P", "l", "e", "a", "s", "e", " ", "i", "n", "s", "t", "a", "l", "l",
      " ", "g", "f", "o", "r", "t", "h", ".">>

MsgKernelDirMissing ==
    <<"k", "e", "r", "n", "e", "l", "/", " ", "d", "i", "r", "e", "c", "t", "o", "r",
      "y", " ", "n", "o", "t", " ", "f", "o", "u", "n", "d">>

MsgNonZero ==
    <<"F", "o", "r", "t", "h", " ", "k", "e", "r", "n", "e", "l", " ", "r", "e", "t",
      "u", "r", "n", "e", "d", " ", "n", "o", "n", "-", "z", "e", "r", "o", " ", "e",
      "x", "i", "t", " ", "c", "o", "d", "e">>

MsgReadFailed ==
    <<"F", "a", "i", "l", "e", "d", " ", "t", "o", " ", "r", "e", "a", "d", " ">>

\* the text of an operating-system diagnostic (io::Error's Display)
IoDiag == <<"o", "s", " ", "e", "r", "r", "o", "r">>

(***************************************************************************)
(* StrikeError and its Display.                                            *)
(***************************************************************************)
NoError == [kind |-> "Ok"]
ByteOutOfRange(position, value) ==
    [kind |-> "ByteOutOfRange", position |-> position, value |-> value]
ForbiddenByte(position, value, description) ==
    [kind |-> "ForbiddenByte", position |-> position, value |-> value,
     description |-> description]
FileError(msg) == [kind |-> "FileError", msg |-> msg]
ForthError(msg) == [kind |-> "ForthError", msg |-> msg]
GforthNotFound == [kind |-> "GforthNotFound"]

\* #[error("...")] of each variant: e.to_string()
Display(e) ==
    CASE e.kind = "ByteOutOfRange" ->
            MsgByte \o Dec(e.value) \o MsgAtPosition \o Dec(e.position)
                \o MsgExceeds
      [] e.kind = "ForbiddenByte" ->
            MsgForbidden \o Dec(e.value) \o <<" ", "(", "0", "x">>
                \o Fmt02X(e.value) \o <<")">> \o MsgAtPosition
                \o Dec(e.position) \o <<":", " ">> \o e.description
      [] e.kind = "FileError" -> MsgFileError \o e.msg
      [] e.kind = "ForthError" -> MsgForthError \o e.msg
      [] e.kind = "GforthNotFound" -> MsgGforthNotFound

(***************************************************************************)
(* ByteValidator: fail-fast and exhaustive modes.                          *)
(***************************************************************************)
\* validate_byte without its range test: only the two forbidden values fail
ValidateByteNoRange(byte, position) ==
    IF byte = FORBIDDEN_NBSP
    THEN ForbiddenByte(position, byte, NbspDescription)
    ELSE IF byte = FORBIDDEN_UTF8
         THEN ForbiddenByte(position, byte, Utf8Description)
    ELSE NoError

\* validate_byte with its range test off by one: >= MAX_BYTE for > MAX_BYTE
ValidateByteOffByOne(byte, position) ==
    IF byte >= MAX_BYTE THEN ByteOutOfRange(position, byte)
    ELSE NoError

ValidateByte(byte, position) ==
    IF byte > MAX_BYTE THEN ByteOutOfRange(position, byte)
    ELSE IF byte = FORBIDDEN_NBSP
         THEN ForbiddenByte(position, byte, NbspDescription)
    ELSE IF byte = FORBIDDEN_UTF8
         THEN ForbiddenByte(position, byte, Utf8Description)
    ELSE NoError

RECURSIVE ValidateFrom(_, _)
ValidateFrom(bs, i) ==
    IF i > Len(bs) THEN NoError
    ELSE LET r == ValidateByte(bs[i], i - 1)
         IN  IF r.kind # "Ok" THEN r ELSE ValidateFrom(bs, i + 1)

\* the loop at the head of execute_forth_strike: the first violation, in order
ValidateStrict(bs) == ValidateFrom(bs, 1)

Contaminant(position, value, description) ==
    [position |-> position, value |-> value, description |-> description]

\* the closure with the position counted from 1
ClassifyOneBased(i, b) ==
    IF b > MAX_BYTE
    THEN <<Contaminant(i + 1, b, NonAsciiPrefix \o Fmt02X(b) \o NonAsciiSuffix)>>
    ELSE <<>>

\* the closure of find_contaminants' filter_map: <<c>> for Some(c), <<>> for None
Classify(i, b) ==
    IF b > MAX_BYTE
    THEN <<Contaminant(i, b, NonAsciiPrefix \o Fmt02X(b) \o NonAsciiSuffix)>>
    ELSE IF b = FORBIDDEN_NBSP THEN <<Contaminant(i, b, NbspDescription)>>
    ELSE IF b = FORBIDDEN_UTF8 THEN <<Contaminant(i, b, Utf8Description)>>
    ELSE <<>>

RECURSIVE FindFrom(_, _)
FindFrom(bs, i) ==
    IF i > Len(bs) THEN <<>>
    ELSE Classify(i - 1, bs[i]) \o FindFrom(bs, i + 1)

FindContaminants(bs) == FindFrom(bs, 1)

(***************************************************************************)
(* HexRenderer.                                                            *)
(***************************************************************************)
Min(a, b) == IF a < b THEN a ELSE b

\* bytes.chunks(16)
Chunks(bs) ==
    [i \in 1..((Len(bs) + ChunkSize - 1) \div ChunkSize) |->
        SubSeq(bs, ChunkSize * (i - 1) + 1, Min(ChunkSize * i, Len(bs)))]

\* an element of the hex field without the gap before the ninth byte
HexItemNoGap(j, b) == Fmt02x(b)

\* one element of the hex field; j is the 0-based index in the chunk
HexItem(j, b) == IF j = 8 THEN <<" ">> \o Fmt02x(b) ELSE Fmt02x(b)

HexField(chunk) ==
    Join([j \in 1..Len(chunk) |-> HexItem(j - 1, chunk[j])], <<" ">>)

AsciiChar(b) == IF b >= 32 /\ b < 127 THEN AsciiTable[b - 31] ELSE "."

AsciiField(chunk) == [j \in 1..Len(chunk) |-> AsciiChar(chunk[j])]

\* format!("{:08x}  {:48}  |{}|", i * 16, hex, ascii); i is 0-based
HexRow(i, chunk) ==
    Fmt08x(i * ChunkSize) \o <<" ", " ">>
        \o PadRight(HexField(chunk), HexFieldWidth, " ")
        \o <<" ", " ", "|">> \o AsciiField(chunk) \o <<"|">>

BytesToHexdump(bs) ==
    LET chunks == Chunks(bs)
    IN  Join([i \in 1..Len(chunks) |-> HexRow(i - 1, chunks[i])], <<"\n">>)

(***************************************************************************)
(* preview and verify.                                                     *)
(***************************************************************************)
PreviewForthStrike(bs) ==
    LET contaminants == FindContaminants(bs)
    IN  [hex_preview |-> BytesToHexdump(bs),
         would_contaminate |-> contaminants # <<>>,
         contaminants |-> contaminants,
         byte_count |-> Len(bs)]

\* fs::read(&path) succeeded (ok, with the bytes bs) or failed
VerifySubstrate(p, ok, bs) ==
    IF ~ok
    THEN [kind |-> "Err",
          msg |-> MsgReadFailed \o p \o <<":", " ">> \o IoDiag]
    ELSE LET contaminants == FindContaminants(bs)
         IN  [kind |-> "Ok",
              clean |-> contaminants = <<>>,
              contaminants |-> contaminants,
              hexdump |-> BytesToHexdump(bs),
              size |-> Len(bs)]

(***************************************************************************)
(* The buffers handed to preview, verify and the validation loop.          *)
(***************************************************************************)
\* the sequences over S of length at most n
SeqsUpTo(S, n) == UNION {[1..k -> S] : k \in 0..n}

\* byte values around every comparison of the validator and the renderer
ByteSample == {0, 31, 32, 72, 126, 127, 128, 160, 194, 255}

Hello == <<72, 101, 108, 108, 111>>

Scenarios == {Hello, <<65, 200, 66>>, <<160>>, <<72, 194, 73>>}

\* n bytes walking through the whole byte range from s
Ramp(s, n) == [i \in 1..n |-> (s + 37 * (i - 1)) % 256]

RampStarts == {0, 65, 250}

PureBuffers ==
    SeqsUpTo(ByteSample, MaxScan) \cup Scenarios
        \cup {Ramp(s, n) : s \in RampStarts, n \in 0..MaxDump}

VerifyPaths == {<<"o">>, <<"d", "/", "o">>}

NotRun == [kind |-> "NotRun"]

(***************************************************************************)
(* execute_forth_strike: the artifacts handed to the interpreter.          *)
(***************************************************************************)
HeaderLine ==
    <<"\\", " ", "A", "u", "t", "o", "-", "g", "e", "n", "e", "r", "a", "t", "e", "d",
      " ", "s", "t", "r", "i", "k", "e", " ", "d", "a", "t", "a", "\n">>

CreateWord ==
    <<"C", "R", "E", "A", "T", "E", " ", "S", "T", "R", "I", "K", "E", "-", "D", "A",
      "T", "A", " ">>

CommaSep ==
    <<" ", ",", " ">>

KernelProgram ==
    <<"k", "e", "r", "n", "e", "l", "/", "s", "t", "r", "i", "k", "e", "r", ".", "f",
      "t", "h">>

DataPath ==
    <<"k", "e", "r", "n", "e", "l", "/", "d", "a", "t", "a", ".", "f", "t", "h">>

EvalFlag ==
    <<"-", "e">>

DirectiveOpen ==
    <<"s", "\"", " ">>

DirectiveMid ==
    <<"\"", " ", "s", "t", "r", "i", "k", "e", "-", "i", "n", "i", "t", " ", "S", "T",
      "R", "I", "K", "E", "-", "D", "A", "T", "A", " ">>

DirectiveTail ==
    <<" ", "s", "t", "r", "i", "k", "e", "-", "s", "e", "q", "u", "e", "n", "c", "e",
      " ", "s", "t", "r", "i", "k", "e", "-", "c", "l", "o", "s", "e", " ", "b", "y",
      "e">>

\* the texts written to kernel/data.fth, one element per write call on the
\* unbuffered File: writeln!(header), write!("CREATE STRIKE-DATA "), then for
\* each byte the formatted number and the literal " , ", then writeln!()
WriteChunks(bs) ==
    <<HeaderLine, CreateWord>>
        \o Concat([i \in 1..Len(bs) |-> <<Dec(bs[i]), CommaSep>>])
        \o <<<<"\n">>>>

\* the argument vector of the strike process
Argv(p, bs) ==
    <<KernelProgram, DataPath, EvalFlag,
      DirectiveOpen \o p \o DirectiveMid \o Dec(Len(bs)) \o DirectiveTail>>

Max(a, b) == IF a > b THEN a ELSE b

\* write(2) of text at a handle's offset o: bytes under the text are replaced,
\* the file grows as needed, and a gap past the end of file reads as zero bytes
WriteAt(data, o, text) ==
    [i \in 1..Max(Len(data), o + Len(text)) |->
        IF i > o /\ i <= o + Len(text) THEN text[i - o]
        ELSE IF i <= Len(data) THEN data[i]
        ELSE "NUL"]

\* the index of the last "/" of p, 0 when there is none
LastSlash(p) ==
    LET at == {i \in 1..Len(p) : p[i] = "/"}
    IN  IF at = {} THEN 0 ELSE CHOOSE i \in at : \A j \in at : j <= i

\* Path::new(&path).parent(), for paths without "." components, repeated or
\* trailing separators: None for "" and "/", otherwise the path without its
\* last component
Parent(p) ==
    IF p = <<>> \/ p = <<"/">> THEN [some |-> FALSE, dir |-> <<>>]
    ELSE LET k == LastSlash(p)
         IN  IF k = 0 THEN [some |-> TRUE, dir |-> <<>>]
             ELSE IF k = 1 THEN [some |-> TRUE, dir |-> <<"/">>]
             ELSE [some |-> TRUE, dir |-> SubSeq(p, 1, k - 1)]

\* the directories create_dir_all(d) makes sure of: d and its ancestors
DirChain(d) ==
    IF d = <<>> THEN {}
    ELSE {d} \cup {SubSeq(d, 1, k - 1) : k \in {i \in 2..Len(d) : d[i] = "/"}}

(***************************************************************************)
(* The callers of execute and what each call is handed.                    *)
(***************************************************************************)
Callers == {"a", "b"}

ValidBytes == {7, 72}
ExecBytes == ValidBytes \cup {160, 194, 200}
ExecBuffers == SeqsUpTo(ExecBytes, MaxLen)
RaceBuffers == SeqsUpTo(ValidBytes, MaxRace)

Paths == {<<>>, <<"o">>, <<"d", "/", "o">>, <<"d", "/", "e", "/", "o">>}
RacePaths == {<<"d", "/", "o">>}

\* process exit statuses: success and failure
ExitCodes == {0, 1}

NoFile == [exists |-> FALSE, data |-> <<>>]
NotLaunched == [argv |-> <<>>, loaded |-> FALSE, read |-> <<>>]
Pending == [kind |-> "Pending"]
Ok == [kind |-> "Ok"]
\* Err(e.to_string()) of a StrikeError
Err(e) == [kind |-> "Err", error |-> e.kind, text |-> Display(e)]
\* Err(e.to_string()) of a bare io::Error
ErrIo == [kind |-> "Err", error |-> "Io", text |-> IoDiag]

Step(name, ok) == [step |-> name, ok |-> ok]

(***************************************************************************)
(* Initial states.                                                         *)
(***************************************************************************)
IdleCalls ==
    /\ pc = [c \in Callers |-> "idle"]
    /\ bytes = [c \in Callers |-> <<>>]
    /\ path = [c \in Callers |-> <<>>]
    /\ wpos = [c \in Callers |-> 0]
    /\ off = [c \in Callers |-> 0]
    /\ avail = [c \in Callers |-> "unknown"]
    /\ log = [c \in Callers |-> <<>>]
    /\ result = [c \in Callers |-> Pending]
    /\ launched = [c \in Callers |-> NotLaunched]
    /\ exitCode = [c \in Callers |-> -1]
    /\ fragAtBegin = [c \in Callers |-> NoFile]
    /\ dirsAtBegin = [c \in Callers |-> {}]

NoPure ==
    /\ input = <<>>
    /\ readable = TRUE
    /\ vpath = <<>>
    /\ strict = NotRun
    /\ preview = NotRun
    /\ verify = NotRun

\* kernel/ exists or not; kernel/data.fth has not been generated yet
Init ==
    /\ NoPure
    /\ IdleCalls
    /\ fragment = NoFile
    /\ dirs = {}
    /\ kernelDir \in BOOLEAN

\* a buffer as a number: its length, then its bytes, most significant first
RECURSIVE Weight(_)
Weight(bs) ==
    IF bs = <<>> THEN 0
    ELSE 256 * Weight(SubSeq(bs, 1, Len(bs) - 1)) + bs[Len(bs)] + 1

\* execute has just been invoked from two contexts at once, with different
\* buffers; the two contexts are interchangeable, so the one called "a" is
\* given the buffer of lower weight
InitRace ==
    /\ NoPure
    /\ pc = [c \in Callers |-> "validate"]
    /\ bytes \in [Callers -> RaceBuffers]
    /\ Weight(bytes["a"]) < Weight(bytes["b"])
    /\ path \in [Callers -> RacePaths]
    /\ wpos = [c \in Callers |-> 0]
    /\ off = [c \in Callers |-> 0]
    /\ avail = [c \in Callers |-> "unknown"]
    /\ log = [c \in Callers |-> <<>>]
    /\ result = [c \in Callers |-> Pending]
    /\ launched = [c \in Callers |-> NotLaunched]
    /\ exitCode = [c \in Callers |-> -1]
    /\ fragAtBegin = [c \in Callers |-> NoFile]
    /\ dirsAtBegin = [c \in Callers |-> {}]
    /\ fragment = NoFile
    /\ dirs = {}
    /\ kernelDir = TRUE

InitPure ==
    /\ input \in PureBuffers
    /\ readable \in BOOLEAN
    /\ vpath \in VerifyPaths
    /\ strict = NotRun
    /\ preview = NotRun
    /\ verify = NotRun
    /\ IdleCalls
    /\ fragment = NoFile
    /\ dirs = {}
    /\ kernelDir = TRUE

(***************************************************************************)
(* preview, verify and the validation loop on one buffer.                  *)
(***************************************************************************)
DoPreview ==
    /\ preview = NotRun
    /\ preview' = PreviewForthStrike(input)
    /\ UNCHANGED <<input, readable, vpath, strict, verify, callVars, fsVars>>

DoVerify ==
    /\ verify = NotRun
    /\ verify' = VerifySubstrate(vpath, readable, input)
    /\ UNCHANGED <<input, readable, vpath, strict, preview, callVars, fsVars>>

DoValidate ==
    /\ strict = NotRun
    /\ strict' = ValidateStrict(input)
    /\ UNCHANGED <<input, readable, vpath, preview, verify, callVars, fsVars>>

NextPure == DoPreview \/ DoVerify \/ DoValidate

SpecPure == InitPure /\ [][NextPure]_vars

(***************************************************************************)
(* execute_forth_strike, one action per step of the call.                  *)
(***************************************************************************)
\* the order in which the destination's parent directory is ensured before
\* the fragment is created and written
NextStageParentFirst(stage) ==
    CASE stage = "validate" -> "probe"
      [] stage = "probe" -> "kerneldir"
      [] stage = "kerneldir" -> "mkdir"
      [] stage = "mkdir" -> "create"
      [] stage = "create" -> "write"
      [] stage = "write" -> "spawn"
      [] stage = "spawn" -> "load"
      [] stage = "load" -> "wait"

\* the statement that follows each statement of execute_forth_strike when it
\* succeeds
NextStage(stage) ==
    CASE stage = "validate" -> "probe"
      [] stage = "probe" -> "kerneldir"
      [] stage = "kerneldir" -> "create"
      [] stage = "create" -> "write"
      [] stage = "write" -> "mkdir"
      [] stage = "mkdir" -> "spawn"
      [] stage = "spawn" -> "load"
      [] stage = "load" -> "wait"

\* what running `gforth --version` came to: the process could not be started,
\* it exited non-zero, or it exited zero
ProbeOutcomes == {"absent", "failed", "ok"}

\* check_gforth with unwrap_or(true): a probe that cannot be started counts
\* as available
CheckGforthDefaultTrue(outcome) ==
    IF outcome = "absent" THEN TRUE ELSE outcome = "ok"

\* check_gforth: .output().map(|o| o.status.success()).unwrap_or(false)
CheckGforth(outcome) ==
    IF outcome = "absent" THEN FALSE ELSE outcome = "ok"

\* the exit status ignored
StrikeResultAlwaysOk(code) == Ok

\* if status.success() { Ok(()) } else { Err(ForthError(...)) }
StrikeResult(code) ==
    IF code = 0 THEN Ok ELSE Err(ForthError(MsgNonZero))

\* the call returns r
Finish(c, r) ==
    /\ pc' = [pc EXCEPT ![c] = "done"]
    /\ result' = [result EXCEPT ![c] = r]

Logged(c, name, ok) == log' = [log EXCEPT ![c] = Append(@, Step(name, ok))]

\* the command is invoked with a buffer and a destination
Begin(c, buffers, paths) ==
    /\ pc[c] = "idle"
    /\ \E b \in buffers, p \in paths :
          /\ bytes' = [bytes EXCEPT ![c] = b]
          /\ path' = [path EXCEPT ![c] = p]
    /\ pc' = [pc EXCEPT ![c] = "validate"]
    /\ fragAtBegin' = [fragAtBegin EXCEPT ![c] = fragment]
    /\ dirsAtBegin' = [dirsAtBegin EXCEPT ![c] = dirs]
    /\ UNCHANGED <<wpos, off, avail, log, result, launched, exitCode>>
    /\ UNCHANGED <<pureVars, fsVars>>

\* for (i, &b) in bytes.iter().enumerate() { validate_byte(b, i)...? }
Validate(c) ==
    /\ pc[c] = "validate"
    /\ LET r == ValidateStrict(bytes[c])
       IN  IF r.kind # "Ok"
           THEN Finish(c, Err(r))
           ELSE /\ pc' = [pc EXCEPT ![c] = NextStage("validate")]
                /\ UNCHANGED result
    /\ UNCHANGED <<bytes, path, wpos, off, avail, log, launched, exitCode,
                   fragAtBegin, dirsAtBegin>>
    /\ UNCHANGED <<pureVars, fsVars>>

\* if !check_gforth() { return Err(GforthNotFound) }: gforth --version is run
ProbeGforth(c) ==
    /\ pc[c] = "probe"
    /\ \E outcome \in ProbeOutcomes :
          /\ avail' = [avail EXCEPT ![c] = outcome]
          /\ Logged(c, "probe", CheckGforth(outcome))
          /\ IF CheckGforth(outcome)
             THEN /\ pc' = [pc EXCEPT ![c] = NextStage("probe")]
                  /\ UNCHANGED result
             ELSE Finish(c, Err(GforthNotFound))
    /\ UNCHANGED <<bytes, path, wpos, off, launched, exitCode,
                   fragAtBegin, dirsAtBegin>>
    /\ UNCHANGED <<pureVars, fsVars>>

\* if !kernel_dir.exists() { return Err(FileError("kernel/ directory not found")) }
KernelDirExists(c) ==
    /\ pc[c] = "kerneldir"
    /\ Logged(c, "exists", kernelDir)
    /\ IF kernelDir
       THEN /\ pc' = [pc EXCEPT ![c] = NextStage("kerneldir")]
            /\ UNCHANGED result
       ELSE Finish(c, Err(FileError(MsgKernelDirMissing)))
    /\ UNCHANGED <<bytes, path, wpos, off, avail, launched, exitCode,
                   fragAtBegin, dirsAtBegin>>
    /\ UNCHANGED <<pureVars, fsVars>>

\* (fragAtBegin[c] is kernel/data.fth as the call found it; it is kept until
\* the call itself replaces the file, after which the old content is gone.)
\* the open behind File::create(&data_path), which is
\* OpenOptions::new().write(true).create(true).truncate(true): the file is
\* created, or emptied when truncate is set; the handle starts at offset 0; the
\* open fails when kernel/ is missing, or for another reason
OpenFragment(c, truncate) ==
    /\ pc[c] = "create"
    /\ \E ok \in (IF kernelDir THEN BOOLEAN ELSE {FALSE}) :
          /\ Logged(c, "create", ok)
          /\ IF ok
             THEN /\ fragment' = [exists |-> TRUE,
                                  data |-> IF truncate THEN <<>> ELSE fragment.data]
                  /\ off' = [off EXCEPT ![c] = 0]
                  /\ wpos' = [wpos EXCEPT ![c] = 1]
                  /\ pc' = [pc EXCEPT ![c] = NextStage("create")]
                  /\ fragAtBegin' = [fragAtBegin EXCEPT ![c] = NoFile]
                  /\ UNCHANGED result
             ELSE /\ Finish(c, Err(FileError(IoDiag)))
                  /\ UNCHANGED <<fragment, off, wpos, fragAtBegin>>
    /\ UNCHANGED <<bytes, path, avail, launched, exitCode, dirsAtBegin>>
    /\ UNCHANGED <<pureVars, dirs, kernelDir>>

\* the calls whose fragment another call's File::create would destroy: those
\* between their own File::create and their interpreter's load of the file
InWindow(c) == pc[c] \in {"write", "mkdir", "spawn", "load"}

\* File::create behind a lock held from the create to the interpreter's load
CreateFragmentLocked(c) ==
    /\ \A d \in Callers \ {c} : ~InWindow(d)
    /\ OpenFragment(c, TRUE)

\* the file opened for writing without truncate(true)
CreateFragmentNoTruncate(c) == OpenFragment(c, FALSE)

\* let mut f = File::create(&data_path)...?
CreateFragment(c) == OpenFragment(c, TRUE)

\* one write_all of the writeln!/write! sequence, at the handle's offset: it
\* stores the whole text, or it stores the first k characters of it (k less
\* than the length, possibly none) and then fails, and the call returns the
\* bare io error, dropping the handle
WriteChunk(c) ==
    /\ pc[c] = "write"
    /\ LET plan == WriteChunks(bytes[c])
           text == plan[wpos[c]]
       IN  \/ /\ Logged(c, "write", TRUE)
              /\ fragment' = [exists |-> TRUE,
                              data |-> WriteAt(fragment.data, off[c], text)]
              /\ off' = [off EXCEPT ![c] = @ + Len(text)]
              /\ wpos' = [wpos EXCEPT ![c] = @ + 1]
              /\ pc' = [pc EXCEPT ![c] =
                           IF wpos[c] = Len(plan) THEN NextStage("write")
                           ELSE "write"]
              /\ UNCHANGED result
           \/ \E k \in 0..(Len(text) - 1) :
                 /\ Logged(c, "write", FALSE)
                 /\ fragment' =
                       IF k = 0 THEN fragment
                       ELSE [exists |-> TRUE,
                             data |-> WriteAt(fragment.data, off[c],
                                              SubSeq(text, 1, k))]
                 /\ off' = [off EXCEPT ![c] = 0]
                 /\ wpos' = [wpos EXCEPT ![c] = 0]
                 /\ Finish(c, ErrIo)
    /\ UNCHANGED <<bytes, path, avail, launched, exitCode,
                   fragAtBegin, dirsAtBegin>>
    /\ UNCHANGED <<pureVars, dirs, kernelDir>>

\* if let Some(parent) = Path::new(&path).parent() { fs::create_dir_all(parent)? }
\* create_dir_all("") succeeds at once; a failure may leave the ancestors made
\* before the failing one
EnsureParent(c) ==
    /\ pc[c] = "mkdir"
    /\ LET parent == Parent(path[c])
           chain == DirChain(parent.dir)
       IN  IF ~parent.some
           THEN /\ pc' = [pc EXCEPT ![c] = NextStage("mkdir")]
                /\ UNCHANGED <<dirs, log, result>>
           ELSE \/ /\ Logged(c, "mkdir", TRUE)
                   /\ dirs' = dirs \cup chain
                   /\ pc' = [pc EXCEPT ![c] = NextStage("mkdir")]
                   /\ UNCHANGED result
                \/ /\ parent.dir \notin dirs
                   /\ parent.dir # <<>>
                   /\ \E failing \in chain :
                         dirs' = dirs \cup {d \in chain : Len(d) < Len(failing)}
                   /\ Logged(c, "mkdir", FALSE)
                   /\ Finish(c, Err(FileError(IoDiag)))
    /\ UNCHANGED <<bytes, path, wpos, off, avail, launched, exitCode,
                   fragAtBegin, dirsAtBegin>>
    /\ UNCHANGED <<pureVars, fragment, kernelDir>>

\* Command::new("gforth").args([...]).status(): the spawn
Spawn(c) ==
    /\ pc[c] = "spawn"
    /\ \E ok \in BOOLEAN :
          /\ Logged(c, "spawn", ok)
          /\ IF ok
             THEN /\ launched' = [launched EXCEPT ![c] =
                        [argv |-> Argv(path[c], bytes[c]),
                         loaded |-> FALSE, read |-> <<>>]]
                  /\ pc' = [pc EXCEPT ![c] = NextStage("spawn")]
                  /\ UNCHANGED result
             ELSE /\ Finish(c, Err(ForthError(IoDiag)))
                  /\ UNCHANGED launched
    /\ UNCHANGED <<bytes, path, wpos, off, avail, exitCode,
                   fragAtBegin, dirsAtBegin>>
    /\ UNCHANGED <<pureVars, fsVars>>

\* the interpreter loads its second source argument, kernel/data.fth, as the
\* file stands at that moment
Load(c) ==
    /\ pc[c] = "load"
    /\ launched' = [launched EXCEPT ![c] =
          [@ EXCEPT !.loaded = fragment.exists, !.read = fragment.data]]
    /\ pc' = [pc EXCEPT ![c] = NextStage("load")]
    /\ UNCHANGED <<bytes, path, wpos, off, avail, log, result, exitCode,
                   fragAtBegin, dirsAtBegin>>
    /\ UNCHANGED <<pureVars, fsVars>>

\* .status() returns once the interpreter has exited, with its exit status
Exit(c) ==
    /\ pc[c] = "wait"
    /\ \E code \in ExitCodes :
          /\ exitCode' = [exitCode EXCEPT ![c] = code]
          /\ Finish(c, StrikeResult(code))
    /\ UNCHANGED <<bytes, path, wpos, off, avail, log, launched,
                   fragAtBegin, dirsAtBegin>>
    /\ UNCHANGED <<pureVars, fsVars>>

\* the result has been handed to the caller; nothing of the call is kept
Return(c) ==
    /\ pc[c] = "done"
    /\ pc' = [pc EXCEPT ![c] = "idle"]
    /\ bytes' = [bytes EXCEPT ![c] = <<>>]
    /\ path' = [path EXCEPT ![c] = <<>>]
    /\ wpos' = [wpos EXCEPT ![c] = 0]
    /\ off' = [off EXCEPT ![c] = 0]
    /\ avail' = [avail EXCEPT ![c] = "unknown"]
    /\ log' = [log EXCEPT ![c] = <<>>]
    /\ result' = [result EXCEPT ![c] = Pending]
    /\ launched' = [launched EXCEPT ![c] = NotLaunched]
    /\ exitCode' = [exitCode EXCEPT ![c] = -1]
    /\ fragAtBegin' = [fragAtBegin EXCEPT ![c] = NoFile]
    /\ dirsAtBegin' = [dirsAtBegin EXCEPT ![c] = {}]
    /\ UNCHANGED <<pureVars, fsVars>>

\* one step of a call in flight, up to the point where it has its result
Execute(c) ==
    \/ Validate(c)
    \/ ProbeGforth(c)
    \/ KernelDirExists(c)
    \/ CreateFragment(c)
    \/ WriteChunk(c)
    \/ EnsureParent(c)
    \/ Spawn(c)
    \/ Load(c)
    \/ Exit(c)

Run(c) == Execute(c) \/ Return(c)

\* the context the host dispatches a synchronous command on
Host == "a"

\* one call at a time: the host runs a command to completion before the next
BeginSerial(c) ==
    /\ \A d \in Callers : pc[d] = "idle"
    /\ Begin(c, ExecBuffers, Paths)

Next == BeginSerial(Host) \/ Run(Host)

\* two calls in flight at once, with no serialisation between them
NextRace == \E c \in Callers : Execute(c)

Spec == Init /\ [][Next]_vars

SpecRace == InitRace /\ [][NextRace]_vars

(***************************************************************************)
(* Reading the generated texts back, as the interpreter does: lines, and    *)
(* whitespace-delimited words.                                             *)
(***************************************************************************)
\* the position of the k-th occurrence of sep in text; 0 for k = 0, and one
\* past the end for k beyond the last occurrence
SepAt(text, sep, k) ==
    LET at == {i \in 1..Len(text) : text[i] = sep}
    IN  IF k = 0 THEN 0
        ELSE IF k > Cardinality(at) THEN Len(text) + 1
        ELSE CHOOSE i \in at : Cardinality({j \in at : j < i}) = k - 1

\* the pieces of text between the occurrences of sep
Split(text, sep) ==
    [k \in 1..(Cardinality({i \in 1..Len(text) : text[i] = sep}) + 1) |->
        SubSeq(text, SepAt(text, sep, k - 1) + 1, SepAt(text, sep, k) - 1)]

NonEmpty(t) == t # <<>>

\* the words of a line
Tokens(line) == SelectSeq(Split(line, " "), NonEmpty)

\* the value of digit character ch among digits, -1 when it is none of them
DigitValue(ch, digits) ==
    IF \E k \in 1..Len(digits) : digits[k] = ch
    THEN (CHOOSE k \in 1..Len(digits) : digits[k] = ch) - 1
    ELSE -1

RECURSIVE ParseFrom(_, _, _, _)
ParseFrom(tok, digits, i, acc) ==
    IF i > Len(tok) THEN acc
    ELSE IF DigitValue(tok[i], digits) < 0 THEN -1
    ELSE ParseFrom(tok, digits, i + 1,
                   acc * Len(digits) + DigitValue(tok[i], digits))

\* the number a word denotes in the base Len(digits), -1 when it is no number
ParseNum(tok, digits) ==
    IF tok = <<>> THEN -1 ELSE ParseFrom(tok, digits, 1, 0)

WordCreate ==
    <<"C", "R", "E", "A", "T", "E">>

WordStrikeData ==
    <<"S", "T", "R", "I", "K", "E", "-", "D", "A", "T", "A">>

WordSQuote ==
    <<"s", "\"">>

WordStrikeInit ==
    <<"s", "t", "r", "i", "k", "e", "-", "i", "n", "i", "t">>

WordStrikeSequence ==
    <<"s", "t", "r", "i", "k", "e", "-", "s", "e", "q", "u", "e", "n", "c", "e">>

WordStrikeClose ==
    <<"s", "t", "r", "i", "k", "e", "-", "c", "l", "o", "s", "e">>

WordBye ==
    <<"b", "y", "e">>

\* data is one comment line and one declaration line, CREATE STRIKE-DATA
\* followed by exactly the values of bs, each a decimal literal followed by
\* the word "," , and nothing else
FragmentDescribes(data, bs) ==
    LET ls == Split(data, "\n")
    IN  /\ Len(ls) = 3
        /\ ls[3] = <<>>
        /\ Len(ls[1]) >= 2 /\ ls[1][1] = "\\" /\ ls[1][2] = " "
        /\ LET t == Tokens(ls[2])
           IN  /\ Len(t) = 2 + 2 * Len(bs)
               /\ t[1] = WordCreate
               /\ t[2] = WordStrikeData
               /\ \A i \in 1..Len(bs) :
                     /\ ParseNum(t[2 * i + 1], DecDigits) = bs[i]
                     /\ t[2 * i + 2] = <<",">>

\* argv names the kernel program, the fragment and a directive that opens the
\* string p, initialises, and strikes n cells of STRIKE-DATA
DirectiveDescribes(argv, p, n) ==
    /\ Len(argv) = 4
    /\ argv[1] = KernelProgram
    /\ argv[2] = DataPath
    /\ argv[3] = EvalFlag
    /\ LET t == Tokens(argv[4])
       IN  /\ Len(t) = 8
           /\ t[1] = WordSQuote
           /\ t[2] = p \o <<"\"">>
           /\ t[3] = WordStrikeInit
           /\ t[4] = WordStrikeData
           /\ ParseNum(t[5], DecDigits) = n
           /\ t[6] = WordStrikeSequence
           /\ t[7] = WordStrikeClose
           /\ t[8] = WordBye

\* a byte the constraints reject: above the maximum, or a forbidden value
Offending(b) == b > 127 \/ b = 160 \/ b = 194

Contaminated(bs) == \E i \in 1..Len(bs) : Offending(bs[i])

Last(s) == s[Len(s)]

StepNames(l) == {l[i].step : i \in 1..Len(l)}

\* no step is performed after a step that failed
StopsAtFailure(l) == \A i \in 1..(Len(l) - 1) : l[i].ok

\* the steps of l follow the order rank gives them; only writes repeat
InOrder(l, rank) ==
    \A i \in 1..(Len(l) - 1) :
        \/ rank[l[i].step] < rank[l[i + 1].step]
        \/ l[i].step = "write" /\ l[i + 1].step = "write"

\* probe, kernel/ check, create and write the fragment, parent directory, run
CodeOrder ==
    [probe |-> 1, exists |-> 2, create |-> 3, write |-> 4, mkdir |-> 5, spawn |-> 6]

\* probe, kernel/ check, parent directory, create and write the fragment, run
ParentFirstOrder ==
    [probe |-> 1, exists |-> 2, mkdir |-> 3, create |-> 4, write |-> 5, spawn |-> 6]

\* the whole fragment of a buffer
Encode(bs) == Concat(WriteChunks(bs))

(***************************************************************************)
(* C1                                                                      *)
(***************************************************************************)
\* C1: a call whose buffer holds a byte above 127 or a forbidden value (160,
\* 194) never gets past validation: it ends in an error, and neither the probe
\* nor the strike process is run, kernel/data.fth is neither created nor
\* written and keeps its content, and no directory is created.
C1_ValidationGates ==
    \A c \in Callers :
        (pc[c] # "idle" /\ Contaminated(bytes[c])) =>
            /\ pc[c] \in {"validate", "done"}
            /\ pc[c] = "done" => result[c].kind = "Err"
            /\ log[c] = <<>>
            /\ launched[c] = NotLaunched
            /\ fragment = fragAtBegin[c]
            /\ dirs = dirsAtBegin[c]

\* a call with a clean first byte and a forbidden second byte has returned,
\* and a fragment of an earlier call is still in place
C1_Witness ==
    \E c \in Callers :
        /\ pc[c] = "done"
        /\ Len(bytes[c]) = 2
        /\ bytes[c][1] = 72
        /\ bytes[c][2] = 160
        /\ result[c].kind = "Err"
        /\ fragment.exists
        /\ dirs # {}

(***************************************************************************)
(* C2                                                                      *)
(***************************************************************************)
\* C2: when the probe of the interpreter does not succeed, the call returns
\* GforthNotFound, having done nothing but the probe: kernel/data.fth has the
\* content it had when the call began, no directory has been created and the
\* strike process has not been launched.
C2_UnavailableBeforeAnyWrite ==
    \A c \in Callers :
        (pc[c] = "done" /\ avail[c] \in {"absent", "failed"}) =>
            /\ result[c] = Err(GforthNotFound)
            /\ StepNames(log[c]) = {"probe"}
            /\ launched[c] = NotLaunched
            /\ fragment = fragAtBegin[c]
            /\ dirs = dirsAtBegin[c]

\* the interpreter is absent for a call with a valid, non-empty buffer, while
\* the fragment of an earlier call is in place
C2_Witness ==
    \E c \in Callers :
        /\ pc[c] = "done"
        /\ avail[c] = "absent"
        /\ bytes[c] # <<>>
        /\ result[c].error = "GforthNotFound"
        /\ fragAtBegin[c].exists
        /\ fragAtBegin[c].data # <<>>

(***************************************************************************)
(* C3                                                                      *)
(***************************************************************************)
\* C3 as claimed: the steps run in the order probe, kernel/ check, parent
\* directory, fragment, strike, nothing runs after a failed step, and a
\* failure to create the parent directory leaves the fragment as it was.
C3_ParentEnsuredBeforeWrite ==
    \A c \in Callers :
        /\ InOrder(log[c], ParentFirstOrder)
        /\ StopsAtFailure(log[c])
        /\ (pc[c] = "done" /\ log[c] # <<>> /\ Last(log[c]) = Step("mkdir", FALSE))
              => /\ StepNames(log[c]) \cap {"create", "write"} = {}
                 /\ fragment = fragAtBegin[c]

\* C3 amended: the steps run in the order validation, probe, kernel/ check,
\* creation and writing of the fragment, creation of the destination's parent
\* directory, strike; nothing runs after a failed step; so the parent
\* directory is created only after the whole fragment has been written, and a
\* failure to create it leaves the fragment holding the call's buffer.
C3_FragmentWrittenBeforeParent ==
    \A c \in Callers :
        /\ InOrder(log[c], CodeOrder)
        /\ StopsAtFailure(log[c])
        /\ log[c] # <<>> => ValidateStrict(bytes[c]) = NoError
        /\ (log[c] # <<>> /\ ~Last(log[c]).ok) => pc[c] = "done"
        /\ (pc[c] = "done" /\ log[c] # <<>> /\ ~Last(log[c]).ok)
              => result[c].kind = "Err"
        /\ ("mkdir" \in StepNames(log[c]) \/ pc[c] = "mkdir")
              => /\ wpos[c] = Len(WriteChunks(bytes[c])) + 1
                 /\ fragment.data = Encode(bytes[c])
        /\ (pc[c] = "done" /\ log[c] # <<>> /\ Last(log[c]) = Step("mkdir", FALSE))
              => /\ fragment = [exists |-> TRUE, data |-> Encode(bytes[c])]
                 /\ launched[c] = NotLaunched

\* the parent directory could not be created, and the fragment has already
\* been replaced by this call's
C3_Witness ==
    \E c \in Callers :
        /\ pc[c] = "done"
        /\ log[c] # <<>>
        /\ Last(log[c]) = Step("mkdir", FALSE)
        /\ bytes[c] # <<>>
        /\ Step("create", TRUE) \in {log[c][i] : i \in 1..Len(log[c])}
        /\ fragment.data = Encode(bytes[c])

(***************************************************************************)
(* C4                                                                      *)
(***************************************************************************)
\* C4: nothing serialises two calls on kernel/data.fth: while one call is
\* between its File::create and its interpreter's load of the file, another
\* call that has reached its own File::create or one of its writes can take
\* that step; and the directive of a launched interpreter carries the length
\* and destination of its own call whatever the file holds.  (The reachable
\* state in which a successful call struck the other call's data is
\* C4_Witness.)
C4_NoSerialisation ==
    \A c \in Callers :
        /\ launched[c] # NotLaunched
              => DirectiveDescribes(launched[c].argv, path[c], Len(bytes[c]))
        /\ \A d \in Callers \ {c} :
              /\ (InWindow(c) /\ pc[d] = "create") => ENABLED CreateFragment(d)
              /\ (InWindow(c) /\ pc[d] = "write") => ENABLED WriteChunk(d)

\* a call has returned success although its interpreter loaded the complete
\* fragment of the other call, whose buffer has another length
C4_Witness ==
    \E c \in Callers : \E d \in Callers \ {c} :
        /\ pc[c] = "done"
        /\ result[c] = Ok
        /\ launched[c].loaded
        /\ launched[c].read = Encode(bytes[d])
        /\ FragmentDescribes(launched[c].read, bytes[d])
        /\ Len(bytes[d]) # Len(bytes[c])
        /\ ParseNum(Tokens(launched[c].argv[4])[5], DecDigits) = Len(bytes[c])

(***************************************************************************)
(* C5                                                                      *)
(***************************************************************************)
\* C5: the exhaustive scan finds nothing exactly when the fail-fast
\* validation succeeds, so preview's would_contaminate is true exactly for
\* the buffers the validation loop of execute rejects.
C5_ModesAgree ==
    (strict # NotRun /\ preview # NotRun) =>
        /\ (preview.contaminants = <<>>) <=> (strict = NoError)
        /\ preview.would_contaminate <=> (strict.kind # "Ok")
        /\ (FindContaminants(input) = <<>>) <=> (ValidateStrict(input) = NoError)

\* both modes have run on a buffer whose first byte is the maximum and whose
\* second byte is rejected
C5_Witness ==
    /\ strict # NotRun
    /\ preview # NotRun
    /\ Len(input) = 2
    /\ input[1] = 127
    /\ preview.would_contaminate
    /\ strict.kind = "ByteOutOfRange"
    /\ strict.position = 1

(***************************************************************************)
(* C6                                                                      *)
(***************************************************************************)
\* C6: a forbidden value is reported with its own description in both modes:
\* [160] fails validation with ForbiddenByte at 0 described as NBSP and scans
\* to one Contaminant at 0 described as NBSP; [72, 194, 73] scans to exactly
\* one Contaminant, at 1, described as the UTF-8 continuation marker.
C6_ForbiddenDescriptionWins ==
    /\ (input = <<160>> /\ strict # NotRun)
          => strict = ForbiddenByte(0, 160, NbspDescription)
    /\ (input = <<160>> /\ preview # NotRun)
          => preview.contaminants = <<Contaminant(0, 160, NbspDescription)>>
    /\ (input = <<72, 194, 73>> /\ verify # NotRun /\ readable)
          => verify.contaminants = <<Contaminant(1, 194, Utf8Description)>>

(***************************************************************************)
(* C7                                                                      *)
(***************************************************************************)
\* C7: a call returns success exactly when its strike process was launched
\* and exited with status zero; a non-zero exit and a failed spawn give a
\* ForthError; every earlier failure gives an error with no strike process
\* launched.
C7_SuccessIffZeroExit ==
    \A c \in Callers :
        pc[c] = "done" =>
            /\ (result[c] = Ok)
                  <=> (launched[c] # NotLaunched /\ exitCode[c] = 0)
            /\ result[c].kind \in {"Ok", "Err"}
            /\ (launched[c] # NotLaunched /\ exitCode[c] # 0)
                  => (result[c].kind = "Err" /\ result[c].error = "ForthError")
            /\ (log[c] # <<>> /\ Last(log[c]) = Step("spawn", FALSE))
                  => /\ result[c].kind = "Err"
                     /\ result[c].error = "ForthError"
                     /\ launched[c] = NotLaunched
            /\ "spawn" \notin StepNames(log[c])
                  => /\ result[c].kind = "Err"
                     /\ result[c].error # "ForthError"
                     /\ launched[c] = NotLaunched
                     /\ exitCode[c] = -1
            /\ launched[c] # NotLaunched
                  <=> (log[c] # <<>> /\ Last(log[c]) = Step("spawn", TRUE))

\* the interpreter was launched, loaded the fragment and exited non-zero
C7_Witness ==
    \E c \in Callers :
        /\ pc[c] = "done"
        /\ launched[c].loaded
        /\ exitCode[c] = 1
        /\ result[c].kind = "Err"
        /\ result[c].error = "ForthError"

(***************************************************************************)
(* C8                                                                      *)
(***************************************************************************)
\* C8: verify fails only when the file cannot be read; for a readable file it
\* returns a result whose clean flag says that the contaminant list is empty,
\* whose size is the number of bytes read, and whose contaminants are the
\* offending bytes of the file, each at its own 0-based position, in strictly
\* increasing position order.
C8_ContaminationIsAResult ==
    verify # NotRun =>
        /\ (verify.kind = "Err") <=> ~readable
        /\ readable =>
              /\ verify.kind = "Ok"
              /\ verify.clean <=> (verify.contaminants = <<>>)
              /\ verify.size = Len(input)
              /\ \A k \in 1..Len(verify.contaminants) :
                    LET x == verify.contaminants[k]
                    IN  /\ x.position \in 0..(Len(input) - 1)
                        /\ input[x.position + 1] = x.value
                        /\ Offending(x.value)
              /\ \A k \in 1..(Len(verify.contaminants) - 1) :
                    verify.contaminants[k].position
                        < verify.contaminants[k + 1].position
              /\ Len(verify.contaminants)
                    = Cardinality({i \in 1..Len(input) : Offending(input[i])})

\* a readable file with a clean byte and at least two offending ones has been
\* verified
C8_Witness ==
    /\ verify # NotRun
    /\ readable
    /\ verify.kind = "Ok"
    /\ ~verify.clean
    /\ Len(verify.contaminants) >= 2
    /\ verify.size > Len(verify.contaminants)

(***************************************************************************)
(* C9                                                                      *)
(***************************************************************************)
\* C9: with one call at a time, when the strike process is launched the
\* fragment is one comment line and one declaration of exactly the buffer's
\* values, in order, each a decimal literal followed by ",", and that is what
\* the interpreter loads; the directive passes the buffer's length and the
\* destination; nothing of an earlier call's fragment remains.
C9_ArtifactsDescribeBuffer ==
    \A c \in Callers :
        /\ pc[c] \in {"spawn", "load"}
              => /\ fragment.exists
                 /\ FragmentDescribes(fragment.data, bytes[c])
        /\ launched[c] # NotLaunched
              => DirectiveDescribes(launched[c].argv, path[c], Len(bytes[c]))
        /\ (pc[c] \in {"wait", "done"} /\ launched[c] # NotLaunched)
              => /\ launched[c].loaded
                 /\ FragmentDescribes(launched[c].read, bytes[c])

\* the interpreter has been launched for a one-byte buffer by a call that
\* began after an earlier call had written its fragment and made a directory
C9_Witness ==
    \E c \in Callers :
        /\ pc[c] = "load"
        /\ Len(bytes[c]) = 1
        /\ dirsAtBegin[c] # {}
        /\ fragment.data = Encode(bytes[c])
        /\ launched[c].argv # <<>>

(***************************************************************************)
(* C10                                                                     *)
(***************************************************************************)
HelloRowClaimed ==
    <<"0", "0", "0", "0", "0", "0", "0", "0", " ", " ", "4", "8", " ", "6", "5", " ",
      "6", "c", " ", "6", "c", " ", "6", "f", " ", " ", " ", " ", " ", " ", " ", " ",
      " ", " ", " ", " ", " ", " ", " ", " ", " ", " ", " ", " ", " ", " ", " ", " ",
      " ", " ", " ", " ", " ", " ", " ", " ", " ", " ", " ", " ", "|", "H", "e", "l",
      "l", "o", ".", ".", ".", ".", ".", ".", ".", ".", ".", ".", ".", "|">>

HelloRowRendered ==
    <<"0", "0", "0", "0", "0", "0", "0", "0", " ", " ", "4", "8", " ", "6", "5", " ",
      "6", "c", " ", "6", "c", " ", "6", "f", " ", " ", " ", " ", " ", " ", " ", " ",
      " ", " ", " ", " ", " ", " ", " ", " ", " ", " ", " ", " ", " ", " ", " ", " ",
      " ", " ", " ", " ", " ", " ", " ", " ", " ", " ", " ", " ", "|", "H", "e", "l",
      "l", "o", "|">>

\* the rows of a dump
Rows(dump) == IF dump = <<>> THEN <<>> ELSE Split(dump, "\n")

\* the number of bytes of row r (counted from 1) of a dump of n bytes
RowBytes(n, r) == Min(ChunkSize, n - ChunkSize * (r - 1))

\* the column of the hex field at which byte j (counted from 0) of a row begins
HexColumn(j) == 3 * j + (IF j >= 8 THEN 1 ELSE 0) + 1

\* C10 as claimed: the dump of "Hello" ends in |Hello...........|, the ASCII
\* field padded to 16 characters, and all rows of a dump have the same width.
C10_AsciiFieldPadded ==
    preview # NotRun =>
        /\ input = Hello => preview.hex_preview = HelloRowClaimed
        /\ \A r, q \in 1..Len(Rows(preview.hex_preview)) :
              Len(Rows(preview.hex_preview)[r]) = Len(Rows(preview.hex_preview)[q])

\* C10 amended: only the hex field is padded.  A dump has one row per started
\* group of 16 bytes; a row of k bytes is the 8-digit hex offset, two spaces,
\* the hex field of exactly 48 columns (two lowercase digits per byte, one
\* space between bytes, one more before the ninth, spaces to the end), two
\* spaces, and the k characters of the ASCII field between bars, with no
\* padding: 62 + k columns, so rows align up to the opening bar and the dump
\* of "Hello" ends in |Hello|.
C10_OnlyHexFieldPadded ==
    preview # NotRun =>
        LET rows == Rows(preview.hex_preview)
            n == Len(input)
        IN  /\ Len(rows) = (n + ChunkSize - 1) \div ChunkSize
            /\ input = Hello => preview.hex_preview = HelloRowRendered
            /\ \A r \in 1..Len(rows) :
                  LET row == rows[r]
                      k == RowBytes(n, r)
                      hex == SubSeq(row, 11, 58)
                      at == {HexColumn(j) : j \in 0..(k - 1)}
                  IN  /\ Len(row) = 62 + k
                      /\ ParseNum(SubSeq(row, 1, 8), HexLower) = ChunkSize * (r - 1)
                      /\ SubSeq(row, 9, 10) = <<" ", " ">>
                      /\ SubSeq(row, 59, 61) = <<" ", " ", "|">>
                      /\ row[62 + k] = "|"
                      /\ \A j \in 0..(k - 1) :
                            LET b == input[ChunkSize * (r - 1) + j + 1]
                            IN  /\ ParseNum(SubSeq(hex, HexColumn(j), HexColumn(j) + 1),
                                            HexLower) = b
                                /\ row[62 + j] =
                                      (IF b >= 32 /\ b <= 126
                                       THEN AsciiTable[b - 31] ELSE ".")
                      /\ \A i \in 1..48 :
                            (i \notin at /\ (i - 1) \notin at) => hex[i] = " "

\* "Hello" has been rendered: one partial row whose ASCII field is |Hello|
C10_Witness ==
    /\ preview # NotRun
    /\ input = Hello
    /\ preview.hex_preview = HelloRowRendered
    /\ Len(preview.hex_preview) = 67

====
